---- MODULE Spec2Model ----
(***************************************************************************)
(* Thermal-analysis dashboard: the App component (upload pipeline and      *)
(* getDetections), the ImageOverlay component (normalizeBoundingBoxes,     *)
(* scale factors, per-box annotation) and the UploadZone trigger surface.  *)
(*                                                                         *)
(* JavaScript values are tagged pairs <<kind, val>>.  Text is a sequence    *)
(* of one-character strings, so that template strings and number           *)
(* formatting are computed and not assumed.  Box coordinates are integers; *)
(* a confidence is an integer number of thousandths (870 is 0.87); a       *)
(* scaled coordinate is the exact fraction [num, den].                     *)
(***************************************************************************)
EXTENDS Integers, Sequences, FiniteSets

\* ------------------------------------------------------------ bounds
MaxUploads == 3
MaxBoxes == 7
MaxAnswered == 2

\* ------------------------------------------------------------ JS values
\* A value is the pair <<kind, val>>
Undef == <<"undefined", 0>>
Null == <<"null", 0>>
NaN == <<"NaN", 0>>
Num(n) == <<"number", n>>
Str(s) == <<"string", s>>
Arr(s) == <<"array", s>>
Obj(r) == <<"object", r>>
Kind(v) == v[1]
Val(v) == v[2]

\* Array.isArray(v)
IsArray(v) == Kind(v) = "array"

\* v == null || v === undefined, the test behind the ?? operator
IsNullish(v) == Kind(v) \in {"undefined", "null"}

\* ToBoolean(v): the test behind !v, v && ..., v || ...
Truthy(v) ==
  CASE Kind(v) \in {"undefined", "null", "NaN"} -> FALSE
    [] Kind(v) = "number" -> Val(v) # 0
    [] Kind(v) = "string" -> Val(v) # << >>
    [] OTHER -> TRUE

\* a ?? b
Coalesce(a, b) == IF IsNullish(a) THEN b ELSE a

\* o.f for a property name f: only a plain object of the payload has fields
Prop(o, f) ==
  IF Kind(o) = "object" /\ f \in DOMAIN Val(o) THEN Val(o)[f] ELSE Undef

\* a[i] for a 0-based index i of an array value: undefined past the end
Elem(a, i) == IF i + 1 \in DOMAIN Val(a) THEN Val(a)[i + 1] ELSE Undef

\* ------------------------------------------------------------ text
DigitChars == <<"0", "1", "2", "3", "4", "5", "6", "7", "8", "9">>

\* String(n) for a natural number n
RECURSIVE NatToText(_)
NatToText(n) ==
  IF n < 10 THEN <<DigitChars[n + 1]>>
  ELSE NatToText(n \div 10) \o <<DigitChars[(n % 10) + 1]>>

\* s.includes(sub)
Contains(s, sub) ==
  \E i \in 0..(Len(s) - Len(sub)) : SubSeq(s, i + 1, i + Len(sub)) = sub

TxtHTTP == <<"H", "T", "T", "P", " ">>
TxtColon == <<":", " ">>
TxtDetection == <<"D", "e", "t", "e", "c", "t", "i", "o", "n", " ">>
TxtModelError == <<"m", "o", "d", "e", "l", " ", "e", "r", "r", "o", "r">>
TxtFailedToFetch ==
  <<"F", "a", "i", "l", "e", "d", " ", "t", "o", " ", "f", "e", "t", "c", "h">>
TxtUnexpectedToken ==
  <<"U", "n", "e", "x", "p", "e", "c", "t", "e", "d", " ", "t", "o", "k", "e", "n">>
TxtCat == <<"c", "a", "t">>
TxtDog == <<"d", "o", "g">>
TxtOwl == <<"o", "w", "l">>

\* ------------------------------------------------------------ App: getDetections
\* getDetections with predictions probed before detections
getDetections_predictionsFirst(response) ==
  IF ~Truthy(response) THEN Null
  ELSE IF IsArray(Prop(response, "predictions")) THEN Prop(response, "predictions")
  ELSE IF IsArray(Prop(response, "detections")) THEN Prop(response, "detections")
  ELSE IF IsArray(Prop(response, "results")) THEN Prop(response, "results")
  ELSE IF IsArray(Prop(response, "boxes")) THEN Prop(response, "boxes")
  ELSE IF IsArray(response) THEN response
  ELSE Null

getDetections(response) ==
  IF ~Truthy(response) THEN Null
  ELSE IF IsArray(Prop(response, "detections")) THEN Prop(response, "detections")
  ELSE IF IsArray(Prop(response, "predictions")) THEN Prop(response, "predictions")
  ELSE IF IsArray(Prop(response, "results")) THEN Prop(response, "results")
  ELSE IF IsArray(Prop(response, "boxes")) THEN Prop(response, "boxes")
  ELSE IF IsArray(response) THEN response
  ELSE Null

\* previewUrl && detections && detections.length > 0: the overlay branch of App
OverlayMounted(previewUrlV, detectionsV) ==
  /\ Truthy(previewUrlV)
  /\ Truthy(detectionsV)
  /\ Len(Val(detectionsV)) > 0

\* ------------------------------------------------------------ ImageOverlay
COLORS ==
  << "hsl(25, 100%, 50%)", "hsl(142, 76%, 45%)", "hsl(200, 100%, 50%)",
     "hsl(280, 100%, 60%)", "hsl(45, 100%, 50%)" >>

\* [x, y, width, height] = a
BoxFromArray(a) ==
  [x |-> Elem(a, 0), y |-> Elem(a, 1), width |-> Elem(a, 2), height |-> Elem(a, 3)]

\* the scalar branch
BoxFromScalars(d) ==
  [ x |-> Coalesce(Prop(d, "x"), Num(0)),
    y |-> Coalesce(Prop(d, "y"), Num(0)),
    width |-> Coalesce(Coalesce(Prop(d, "width"), Prop(d, "w")), Num(0)),
    height |-> Coalesce(Coalesce(Prop(d, "height"), Prop(d, "h")), Num(0)) ]

\* the box branch with the scalar fields x and y overriding the array
BoxGeometry_scalarsOverride(d) ==
  LET b == IF Truthy(Prop(d, "bbox")) /\ IsArray(Prop(d, "bbox"))
             THEN BoxFromArray(Prop(d, "bbox"))
           ELSE IF Truthy(Prop(d, "bounding_box")) /\ IsArray(Prop(d, "bounding_box"))
             THEN BoxFromArray(Prop(d, "bounding_box"))
           ELSE IF Truthy(Prop(d, "coordinates")) /\ IsArray(Prop(d, "coordinates"))
             THEN BoxFromArray(Prop(d, "coordinates"))
           ELSE BoxFromScalars(d)
  IN [b EXCEPT !.x = Coalesce(Prop(d, "x"), b.x), !.y = Coalesce(Prop(d, "y"), b.y)]

\* the if / else-if chain of the map callback
BoxGeometry(d) ==
  IF Truthy(Prop(d, "bbox")) /\ IsArray(Prop(d, "bbox"))
    THEN BoxFromArray(Prop(d, "bbox"))
  ELSE IF Truthy(Prop(d, "bounding_box")) /\ IsArray(Prop(d, "bounding_box"))
    THEN BoxFromArray(Prop(d, "bounding_box"))
  ELSE IF Truthy(Prop(d, "coordinates")) /\ IsArray(Prop(d, "coordinates"))
    THEN BoxFromArray(Prop(d, "coordinates"))
  ELSE BoxFromScalars(d)

\* the label with class_name probed before class
BoxLabel_classNameFirst(d) ==
  Coalesce(Coalesce(Prop(d, "label"), Prop(d, "class_name")), Prop(d, "class"))

\* d.label ?? d.class ?? d.class_name
BoxLabel(d) ==
  Coalesce(Coalesce(Prop(d, "label"), Prop(d, "class")), Prop(d, "class_name"))

\* d.confidence ?? d.score
BoxConfidence(d) == Coalesce(Prop(d, "confidence"), Prop(d, "score"))

\* one element of normalizeBoundingBoxes
NormalizeOne(d) ==
  LET g == BoxGeometry(d)
  IN [ x |-> g.x, y |-> g.y, width |-> g.width, height |-> g.height,
       label |-> BoxLabel(d), confidence |-> BoxConfidence(d) ]

normalizeBoundingBoxes(dets) == [i \in 1..Len(dets) |-> NormalizeOne(dets[i])]

\* rendered / natural without the || 1 guard
Scale_unguarded(rendered, natural) == [num |-> rendered, den |-> natural]

\* rendered / (natural || 1), as an exact fraction
Scale(rendered, natural) ==
  [num |-> rendered, den |-> IF natural # 0 THEN natural ELSE 1]

\* v * scale: a number times a number, NaN for undefined
Times(v, scale) ==
  IF Kind(v) = "number"
    THEN Num([num |-> Val(v) * scale.num, den |-> scale.den])
    ELSE NaN

\* COLORS[(index + 1) % COLORS.length]
BoxColor_shifted(index) == COLORS[((index + 1) % Len(COLORS)) + 1]

\* COLORS[index % COLORS.length]
BoxColor(index) == COLORS[(index % Len(COLORS)) + 1]

\* (confidence * 100).toFixed(0) for a confidence in thousandths
PercentText(confidence) ==
  IF Kind(confidence) = "number" /\ Val(confidence) >= 0
    THEN NatToText((Val(confidence) + 5) \div 10)
    ELSE <<"N", "a", "N">>

\* box.label || box.confidence !== undefined
ChipShown(box) == Truthy(box.label) \/ Kind(box.confidence) # "undefined"

\* the two text children of the chip
ChipText(box, index) ==
  Val(Coalesce(box.label, Str(TxtDetection \o NatToText(index + 1))))
    \o (IF Kind(box.confidence) # "undefined"
          THEN <<" ">> \o PercentText(box.confidence) \o <<"%">>
          ELSE << >>)

\* Math.max(80, (box.label?.length ?? 0) * 8 + 50)
ChipWidth(box) ==
  LET n == IF IsNullish(box.label) THEN 0 ELSE Len(Val(box.label))
  IN IF n * 8 + 50 > 80 THEN n * 8 + 50 ELSE 80

NoChip == [shown |-> FALSE, text |-> << >>, width |-> 0]

\* the <g> element drawn for the box at 0-based index
Annotate(box, index, sx, sy) ==
  [ color |-> BoxColor(index),
    x |-> Times(box.x, sx),
    y |-> Times(box.y, sy),
    width |-> Times(box.width, sx),
    height |-> Times(box.height, sy),
    chip |-> IF ChipShown(box)
               THEN [shown |-> TRUE, text |-> ChipText(box, index), width |-> ChipWidth(box)]
               ELSE NoChip ]

\* boxes.map(...) under the current dimensions
RenderBoxes(bs, imageDim, naturalDim) ==
  [i \in 1..Len(bs) |->
     Annotate(bs[i], i - 1, Scale(imageDim.width, naturalDim.width),
              Scale(imageDim.height, naturalDim.height))]

\* ------------------------------------------------------------ state
VARIABLES
  imageFile,          \* App: useState<File | null>
  previewUrl,         \* App: useState<string | null>
  isAnalyzing,        \* App: useState(false)
  response,           \* App: useState<AnalysisResponse | null>
  error,              \* App: useState<string | null>
  detections,         \* App: const detections = getDetections()
  imageDimensions,    \* ImageOverlay: useState({width: 0, height: 0})
  naturalDimensions,  \* ImageOverlay: useState({width: 0, height: 0})
  boxes,              \* ImageOverlay: const boxes
  annotations,        \* ImageOverlay: the <g> elements of the svg
  requests,           \* the handleImageUpload invocations suspended at an await
  created,            \* how many object URLs URL.createObjectURL has handed out
  revoked,            \* the object URLs passed to URL.revokeObjectURL
  lastOp,             \* history: the handler that ran last
  lastFrom,           \* history: the pipeline phase that handler started in
  lastReply           \* history: what the request that completed last was answered

appVars == <<imageFile, previewUrl, isAnalyzing, response, error>>
overlayVars == <<imageDimensions, naturalDimensions, boxes, annotations>>
envVars == <<requests, created, revoked>>
histVars == <<lastOp, lastFrom, lastReply>>
vars == <<appVars, detections, overlayVars, envVars, histVars>>

ZeroDim == [width |-> 0, height |-> 0]

Files == {"imageA", "imageB"}

\* res.status values; res.ok is status in 200..299
Statuses == {200, 404, 500}
IsOk(status) == status >= 200 /\ status <= 299

\* res.text() of a failure response: with and without a body
ErrorBodies == {TxtModelError, << >>}

\* URL.createObjectURL: a fresh URL for every call
BlobUrl(n) == Str(<<"b", "l", "o", "b", ":">> \o NatToText(n))

\* `HTTP ${res.status}: ${errorText}`
HttpMessage(status, errorText) == TxtHTTP \o NatToText(status) \o TxtColon \o errorText

\* What DebugPanel and UploadZone show: isLoading, else error, else response
Phase(analyzing, err, resp) ==
  IF analyzing THEN "Uploading"
  ELSE IF Truthy(err) THEN "Failed"
  ELSE IF Truthy(resp) THEN "Succeeded"
  ELSE "Idle"

NoReply == [how |-> "none", status |-> 0, body |-> << >>]

\* The render that follows a change of App state: detections is recomputed, and
\* ImageOverlay is mounted (fresh state), kept (state kept) or unmounted.
Render ==
  /\ detections' = getDetections(response')
  /\ IF OverlayMounted(previewUrl', detections')
       THEN /\ imageDimensions' =
                 IF OverlayMounted(previewUrl, detections) THEN imageDimensions ELSE ZeroDim
            /\ naturalDimensions' =
                 IF OverlayMounted(previewUrl, detections) THEN naturalDimensions ELSE ZeroDim
            /\ boxes' = normalizeBoundingBoxes(Val(detections'))
            /\ annotations' = RenderBoxes(boxes', imageDimensions', naturalDimensions')
       ELSE /\ imageDimensions' = ZeroDim
            /\ naturalDimensions' = ZeroDim
            /\ boxes' = << >>
            /\ annotations' = << >>

Init ==
  /\ imageFile = Null
  /\ previewUrl = Null
  /\ isAnalyzing = FALSE
  /\ response = Null
  /\ error = Null
  /\ detections = Null
  /\ imageDimensions = ZeroDim
  /\ naturalDimensions = ZeroDim
  /\ boxes = << >>
  /\ annotations = << >>
  /\ requests = {}
  /\ created = 0
  /\ revoked = {}
  /\ lastOp = "init"
  /\ lastFrom = "Idle"
  /\ lastReply = NoReply

\* ------------------------------------------------------------ App handlers
\* handleImageUpload without its setError(null)
handleImageUpload_keepsError(file, cap) ==
  /\ ~Truthy(previewUrl)
  /\ created < cap
  /\ imageFile' = Str(file)
  /\ previewUrl' = BlobUrl(created + 1)
  /\ error' = error
  /\ response' = Null
  /\ isAnalyzing' = TRUE
  /\ requests' = requests \cup {[id |-> created + 1, pc |-> "fetch", status |-> 0]}
  /\ created' = created + 1
  /\ revoked' = revoked
  /\ lastOp' = "submit"
  /\ lastFrom' = Phase(isAnalyzing, error, response)
  /\ lastReply' = lastReply
  /\ Render

\* handleImageUpload up to its first await.  UploadZone renders the drop zone
\* and the file input only while previewUrl is unset; at most cap uploads.
handleImageUpload(file, cap) ==
  /\ ~Truthy(previewUrl)
  /\ created < cap
  /\ imageFile' = Str(file)
  /\ previewUrl' = BlobUrl(created + 1)
  /\ error' = Null
  /\ response' = Null
  /\ isAnalyzing' = TRUE
  /\ requests' = requests \cup {[id |-> created + 1, pc |-> "fetch", status |-> 0]}
  /\ created' = created + 1
  /\ revoked' = revoked
  /\ lastOp' = "submit"
  /\ lastFrom' = Phase(isAnalyzing, error, response)
  /\ lastReply' = lastReply
  /\ Render

\* handleClear without the URL.revokeObjectURL(previewUrl) call
handleClear_noRevoke ==
  /\ Truthy(previewUrl)
  /\ revoked' = revoked
  /\ imageFile' = Null
  /\ previewUrl' = Null
  /\ response' = Null
  /\ error' = Null
  /\ UNCHANGED <<isAnalyzing, requests, created, lastReply>>
  /\ lastOp' = "clear"
  /\ lastFrom' = Phase(isAnalyzing, error, response)
  /\ Render

\* handleClear.  Both clear buttons are rendered only while previewUrl is set.
handleClear ==
  /\ Truthy(previewUrl)
  /\ revoked' = revoked \cup {previewUrl}
  /\ imageFile' = Null
  /\ previewUrl' = Null
  /\ response' = Null
  /\ error' = Null
  /\ UNCHANGED <<isAnalyzing, requests, created, lastReply>>
  /\ lastOp' = "clear"
  /\ lastFrom' = Phase(isAnalyzing, error, response)
  /\ Render

\* await fetch(...) resolves with a response of the given status
FetchResolve(id, status) ==
  /\ \E r \in requests :
       /\ r.id = id /\ r.pc = "fetch"
       /\ requests' = (requests \ {r}) \cup
            {[r EXCEPT !.pc = IF IsOk(status) THEN "json" ELSE "text", !.status = status]}
  /\ lastOp' = "progress"
  /\ UNCHANGED <<appVars, detections, overlayVars, created, revoked, lastFrom, lastReply>>

\* catch (err) { setError(err.message) } finally { setIsAnalyzing(false) }
Caught(r, message, reply) ==
  /\ error' = Str(message)
  /\ isAnalyzing' = FALSE
  /\ requests' = requests \ {r}
  /\ UNCHANGED <<imageFile, previewUrl, response, created, revoked>>
  /\ lastOp' = "reply"
  /\ lastFrom' = Phase(isAnalyzing, error, response)
  /\ lastReply' = reply
  /\ Render

\* await fetch(...) rejects: no response at all
FetchReject(id) ==
  \E r \in requests :
    /\ r.id = id /\ r.pc = "fetch"
    /\ Caught(r, TxtFailedToFetch, [how |-> "network", status |-> 0, body |-> << >>])

\* await res.text() resolves; the handler throws the HTTP error
TextResolve(id, errorText) ==
  \E r \in requests :
    /\ r.id = id /\ r.pc = "text"
    /\ Caught(r, HttpMessage(r.status, errorText),
              [how |-> "status", status |-> r.status, body |-> errorText])

\* await res.text() rejects: the connection broke while the body was read
TextReject(id) ==
  \E r \in requests :
    /\ r.id = id /\ r.pc = "text"
    /\ Caught(r, TxtFailedToFetch, [how |-> "network", status |-> r.status, body |-> << >>])

\* await res.json() resolves; setResponse(data), then finally
JsonResolve(id, data) ==
  \E r \in requests :
    /\ r.id = id /\ r.pc = "json"
    /\ response' = data
    /\ isAnalyzing' = FALSE
    /\ requests' = requests \ {r}
    /\ UNCHANGED <<imageFile, previewUrl, error, created, revoked>>
    /\ lastOp' = "reply"
    /\ lastFrom' = Phase(isAnalyzing, error, response)
    /\ lastReply' = [how |-> "success", status |-> r.status, body |-> << >>]
    /\ Render

\* await res.json() rejects: the body is not JSON
JsonReject(id) ==
  \E r \in requests :
    /\ r.id = id /\ r.pc = "json"
    /\ Caught(r, TxtUnexpectedToken, [how |-> "parse", status |-> r.status, body |-> << >>])

\* ------------------------------------------------------------ ImageOverlay events
NaturalSizes == {[width |-> 100, height |-> 100], [width |-> 50, height |-> 100]}
RenderedSizes ==
  {[width |-> 200, height |-> 300], [width |-> 100, height |-> 100], ZeroDim}

\* img.onload of the probe image, once per mounted imageUrl: setNaturalDimensions
NaturalLoaded(dim) ==
  /\ OverlayMounted(previewUrl, detections)
  /\ naturalDimensions = ZeroDim
  /\ naturalDimensions' = dim
  /\ annotations' = RenderBoxes(boxes, imageDimensions, naturalDimensions')
  /\ lastOp' = "geometry"
  /\ UNCHANGED <<appVars, detections, imageDimensions, boxes, envVars, lastFrom, lastReply>>

\* updateDimensions (mount, window resize) and the <img> onLoad: setImageDimensions
updateDimensions(dim) ==
  /\ OverlayMounted(previewUrl, detections)
  /\ imageDimensions' = dim
  /\ annotations' = RenderBoxes(boxes, imageDimensions', naturalDimensions)
  /\ lastOp' = "geometry"
  /\ UNCHANGED <<appVars, detections, naturalDimensions, boxes, envVars, lastFrom, lastReply>>

\* ------------------------------------------------------------ service payloads
\* Detection records follow the Detection interface: every field is optional
\* (undefined when absent), box arrays hold numbers and may be short, labels
\* may be the empty string.
NumArr(s) == Arr([i \in 1..Len(s) |-> Num(s[i])])

EmptyDetection ==
  [ bbox |-> Undef, bounding_box |-> Undef, coordinates |-> Undef,
    x |-> Undef, y |-> Undef, width |-> Undef, height |-> Undef,
    w |-> Undef, h |-> Undef,
    label |-> Undef, class |-> Undef, class_name |-> Undef,
    confidence |-> Undef, score |-> Undef ]

\* {"x":1,"y":1,"width":2,"height":2}
PlainDetection ==
  [EmptyDetection EXCEPT !.x = Num(1), !.y = Num(1), !.width = Num(2), !.height = Num(2)]

\* Every combination of the box encodings: arrays that are absent, not an
\* array, empty, short or full, and scalars that are absent or set.
BoxVariants ==
  { Obj([EmptyDetection EXCEPT
           !.bbox = t[1], !.bounding_box = t[2], !.coordinates = t[3],
           !.x = t[4], !.y = t[5], !.width = t[6], !.height = t[7],
           !.w = t[8], !.h = t[9]]) :
      t \in {Undef, Str(<<"1", ",", "2">>), NumArr(<< >>), NumArr(<<1, 2>>),
             NumArr(<<10, 5, 4, 2>>)}
            \X {Undef, NumArr(<<5, 6, 7, 8>>)}
            \X {Undef, NumArr(<<9, 10, 11, 12>>)}
            \X {Undef, Num(13)} \X {Undef, Num(14)}
            \X {Undef, Num(15)} \X {Undef, Num(16)}
            \X {Undef, Num(17)} \X {Undef, Num(18)} }

\* Every combination of the label and confidence fields on a plain box.
LabelVariants ==
  { Obj([PlainDetection EXCEPT
           !.label = t[1], !.class = t[2], !.class_name = t[3],
           !.confidence = t[4], !.score = t[5]]) :
      t \in {Undef, Str(<< >>), Str(TxtCat)}
            \X {Undef, Str(TxtDog)}
            \X {Undef, Str(TxtOwl)}
            \X {Undef, Num(0), Num(125)}
            \X {Undef, Num(870)} }

\* A list of n plain detections with d at (1-based) position p
ListWith(n, p, d) == [i \in 1..n |-> IF i = p THEN d ELSE Obj(PlainDetection)]

\* One box variant alone; a label variant last in a list, or anywhere in a
\* list of MaxBoxes.
DetectionLists ==
  { <<d>> : d \in BoxVariants }
    \cup { ListWith(p, p, d) : p \in 1..MaxBoxes, d \in LabelVariants }
    \cup { ListWith(MaxBoxes, p, d) : p \in 1..MaxBoxes, d \in LabelVariants }

\* Results that carry one list under "results"
OverlayResults == { Obj([results |-> Arr(l)]) : l \in DetectionLists }

\* The array a result may hold under key k: each key its own length
KeyArray(k) ==
  LET n == CASE k = "detections" -> 1 [] k = "predictions" -> 2
             [] k = "results" -> 3 [] OTHER -> 4
  IN Arr([i \in 1..n |-> Obj(PlainDetection)])

\* Results of every shape: each of the four keys absent, not an array, an
\* empty array or its own array; and results that are no object at all.
ShapeResults ==
  { Obj([detections |-> t[1], predictions |-> t[2], results |-> t[3], boxes |-> t[4]]) :
      t \in {Undef, Str(TxtCat), Arr(<< >>), KeyArray("detections")}
            \X {Undef, Str(TxtCat), Arr(<< >>), KeyArray("predictions")}
            \X {Undef, Str(TxtCat), Arr(<< >>), KeyArray("results")}
            \X {Undef, Str(TxtCat), Arr(<< >>), KeyArray("boxes")} }
    \cup { Null, Num(0), Str(<< >>), Str(TxtCat), Arr(<< >>),
           Arr([i \in 1..5 |-> Obj(PlainDetection)]) }

\* {"results":[{"x":1,"y":1,"width":2,"height":2,"score":0.87}]}
ScenarioResult ==
  Obj([results |-> Arr(<<Obj([PlainDetection EXCEPT !.score = Num(870)])>>)])

\* The bodies the pipeline specification lets the service answer with
SuccessBodies ==
  { ScenarioResult,
    Obj([detections |-> Arr(<< >>)]),
    Obj([status |-> Str(<<"o", "k">>)]) }

\* ------------------------------------------------------------ specifications
\* One step of the program, the service answering from `payloads`, the user
\* picking from `files` and uploading at most `cap` times.
Step(payloads, files, cap) ==
  \/ \E file \in files : handleImageUpload(file, cap)
  \/ handleClear
  \/ \E id \in 1..MaxUploads, status \in Statuses : FetchResolve(id, status)
  \/ \E id \in 1..MaxUploads : FetchReject(id)
  \/ \E id \in 1..MaxUploads, errorText \in ErrorBodies : TextResolve(id, errorText)
  \/ \E id \in 1..MaxUploads : TextReject(id)
  \/ \E id \in 1..MaxUploads, data \in payloads : JsonResolve(id, data)
  \/ \E id \in 1..MaxUploads : JsonReject(id)
  \/ \E dim \in NaturalSizes : NaturalLoaded(dim)
  \/ \E dim \in RenderedSizes : updateDimensions(dim)

\* The upload pipeline with repeated and overlapping uploads
Next == Step(SuccessBodies, Files, MaxUploads)
Spec == Init /\ [][Next]_vars

\* The Analysis Service call completes: every awaited fetch, text() and json()
\* promise of a request settles
ServiceAnswers ==
  \/ \E id \in 1..MaxUploads, status \in Statuses : FetchResolve(id, status)
  \/ \E id \in 1..MaxUploads : FetchReject(id)
  \/ \E id \in 1..MaxUploads, errorText \in ErrorBodies : TextResolve(id, errorText)
  \/ \E id \in 1..MaxUploads : TextReject(id)
  \/ \E id \in 1..MaxUploads, data \in SuccessBodies : JsonResolve(id, data)
  \/ \E id \in 1..MaxUploads : JsonReject(id)
NextAnswered == Step(SuccessBodies, Files, MaxAnswered)
SpecAnswered == Init /\ [][NextAnswered]_vars /\ WF_vars(ServiceAnswers)

\* One upload answered with a result of any shape
NextResolve == Step(ShapeResults, {"imageA"}, 1)
SpecResolve == Init /\ [][NextResolve]_vars

\* One upload answered with any detection list
NextOverlay == Step(OverlayResults, {"imageA"}, 1)
SpecOverlay == Init /\ [][NextOverlay]_vars

\* ------------------------------------------------------------ properties
\* The least element of a non-empty set of integers
Least(S) == CHOOSE i \in S : \A j \in S : i <= j

\* The overlay is mounted and shows one annotation per detection
OverlayShows ==
  /\ OverlayMounted(previewUrl, detections)
  /\ Len(boxes) = Len(Val(detections))
  /\ Len(annotations) = Len(boxes)

\* C1: getDetections returns the first array among result.detections,
\* result.predictions, result.results, result.boxes and the result itself, and
\* null when none of them is an array.
C1_ResolvePriority ==
  LET cand == << Prop(response, "detections"), Prop(response, "predictions"),
                 Prop(response, "results"), Prop(response, "boxes"), response >>
      arrays == {i \in 1..5 : IsArray(cand[i])}
  IN IF arrays = {} THEN detections = Null ELSE detections = cand[Least(arrays)]

\* C1 witness: a stored result holds arrays under detections and predictions
\* (of different lengths) and the detections array was resolved.
C1_Witness ==
  /\ lastOp = "reply"
  /\ IsArray(Prop(response, "detections"))
  /\ IsArray(Prop(response, "predictions"))
  /\ Prop(response, "detections") # Prop(response, "predictions")
  /\ detections = Prop(response, "detections")

\* C2: every normalized box takes x, y, width, height from the first array
\* among bbox, bounding_box, coordinates, position by position, and only when
\* none of the three is an array from the scalars x, y, width (else w),
\* height (else h), each defaulting to 0.
C2_OneBoxSource ==
  OverlayMounted(previewUrl, detections) =>
    /\ Len(boxes) = Len(Val(detections))
    /\ \A i \in DOMAIN boxes :
         LET d == Val(detections)[i]
             b == boxes[i]
             arr == <<Prop(d, "bbox"), Prop(d, "bounding_box"), Prop(d, "coordinates")>>
             found == {k \in 1..3 : IsArray(arr[k])}
             OrZero(v) == IF v = Undef THEN Num(0) ELSE v
         IN IF found # {}
              THEN LET a == arr[Least(found)]
                   IN /\ b.x = Elem(a, 0) /\ b.y = Elem(a, 1)
                      /\ b.width = Elem(a, 2) /\ b.height = Elem(a, 3)
              ELSE /\ b.x = OrZero(Prop(d, "x"))
                   /\ b.y = OrZero(Prop(d, "y"))
                   /\ b.width = (IF Prop(d, "width") # Undef THEN Prop(d, "width")
                                 ELSE OrZero(Prop(d, "w")))
                   /\ b.height = (IF Prop(d, "height") # Undef THEN Prop(d, "height")
                                  ELSE OrZero(Prop(d, "h")))

\* C2 witness: a record with a full bbox array, a bounding_box array and every
\* scalar set was normalized to the four bbox values.
C2_Witness ==
  /\ OverlayShows
  /\ \E i \in DOMAIN boxes :
       LET d == Val(detections)[i]
       IN /\ Prop(d, "bbox") = NumArr(<<10, 5, 4, 2>>)
          /\ IsArray(Prop(d, "bounding_box"))
          /\ \A f \in {"x", "y", "width", "height", "w", "h"} : Prop(d, f) # Undef
          /\ boxes[i].x = Num(10) /\ boxes[i].y = Num(5)
          /\ boxes[i].width = Num(4) /\ boxes[i].height = Num(2)

\* q is the fraction n / d
IsFraction(q, n, d) ==
  Kind(q) = "number" /\ Val(q).den # 0 /\ Val(q).num * d = n * Val(q).den

\* C3: a drawn box has x and width multiplied by renderedWidth / naturalWidth
\* and y and height by renderedHeight / naturalHeight, a natural dimension of
\* 0 counting as 1; scale 2 by 3 maps (10, 5, 4, 2) to (20, 15, 8, 6).
C3_Projection ==
  OverlayMounted(previewUrl, detections) =>
    /\ Len(annotations) = Len(boxes)
    /\ \A i \in DOMAIN boxes :
         LET b == boxes[i]
             a == annotations[i]
             nW == IF naturalDimensions.width = 0 THEN 1 ELSE naturalDimensions.width
             nH == IF naturalDimensions.height = 0 THEN 1 ELSE naturalDimensions.height
             rW == imageDimensions.width
             rH == imageDimensions.height
         IN /\ Kind(b.x) = "number" => IsFraction(a.x, Val(b.x) * rW, nW)
            /\ Kind(b.y) = "number" => IsFraction(a.y, Val(b.y) * rH, nH)
            /\ Kind(b.width) = "number" => IsFraction(a.width, Val(b.width) * rW, nW)
            /\ Kind(b.height) = "number" => IsFraction(a.height, Val(b.height) * rH, nH)
            /\ ( /\ rW = 2 * nW /\ rH = 3 * nH
                 /\ b.x = Num(10) /\ b.y = Num(5) /\ b.width = Num(4) /\ b.height = Num(2) )
               => /\ IsFraction(a.x, 20, 1) /\ IsFraction(a.y, 15, 1)
                  /\ IsFraction(a.width, 8, 1) /\ IsFraction(a.height, 6, 1)

\* C3 witness: before the natural size is known (0 by 0) and with the image
\* rendered 200 by 300, the box (10, 5, 4, 2) is drawn at (2000, 1500, 800, 600).
C3_Witness ==
  /\ OverlayShows
  /\ naturalDimensions = ZeroDim
  /\ imageDimensions = [width |-> 200, height |-> 300]
  /\ \E i \in DOMAIN boxes :
       /\ boxes[i].x = Num(10) /\ boxes[i].width = Num(4)
       /\ boxes[i].y = Num(5) /\ boxes[i].height = Num(2)
       /\ IsFraction(annotations[i].x, 2000, 1)
       /\ IsFraction(annotations[i].y, 1500, 1)
       /\ IsFraction(annotations[i].width, 800, 1)
       /\ IsFraction(annotations[i].height, 600, 1)

\* C4: every normalized and every drawn box has x, y, width and height that
\* are defined numbers, whatever the raw detection lacks.
C4_AlwaysNumbers ==
  /\ \A i \in DOMAIN boxes :
       \A f \in {"x", "y", "width", "height"} : Kind(boxes[i][f]) = "number"
  /\ \A i \in DOMAIN annotations :
       \A f \in {"x", "y", "width", "height"} : Kind(annotations[i][f]) = "number"

\* C5: the label of a normalized box is the first present value among the
\* record's label, class and class_name, and absent when none is present.
C5_LabelPrecedence ==
  OverlayMounted(previewUrl, detections) =>
    /\ Len(boxes) = Len(Val(detections))
    /\ \A i \in DOMAIN boxes :
         LET d == Val(detections)[i]
             cand == <<Prop(d, "label"), Prop(d, "class"), Prop(d, "class_name")>>
             present == {k \in 1..3 : cand[k] # Undef}
         IN IF present = {} THEN boxes[i].label = Undef
            ELSE boxes[i].label = cand[Least(present)]

\* C5 witness: class and class_name are both set, label is not, and the box
\* is labelled with the class value.
C5_Witness ==
  /\ OverlayShows
  /\ \E i \in DOMAIN boxes :
       LET d == Val(detections)[i]
       IN /\ Prop(d, "label") = Undef
          /\ Prop(d, "class") = Str(TxtDog)
          /\ Prop(d, "class_name") = Str(TxtOwl)
          /\ boxes[i].label = Str(TxtDog)

\* C6: right after a submit issued from Idle, Succeeded or Failed, and before
\* any answer to it, the pipeline is Uploading, holds neither result nor
\* error, and holds the preview URL created for the submitted image.
C6_SubmitEntersUploading ==
  (lastOp = "submit" /\ lastFrom \in {"Idle", "Succeeded", "Failed"}) =>
    /\ Phase(isAnalyzing, error, response) = "Uploading"
    /\ response = Null
    /\ error = Null
    /\ previewUrl = BlobUrl(created)
    /\ previewUrl \notin revoked
    /\ imageFile \in {Str(f) : f \in Files}
    /\ [id |-> created, pc |-> "fetch", status |-> 0] \in requests

\* C6 witness: a submit was issued while an error message was stored.
C6_Witness ==
  /\ lastOp = "submit"
  /\ lastFrom = "Failed"
  /\ isAnalyzing
  /\ error = Null
  /\ previewUrl = BlobUrl(created)

\* C7: once the service has answered a submit with a non-success status and
\* the body text, the pipeline is Failed, no result is stored, and the
\* message contains the status code and the body text.
C7_StatusFailureStoresNoResult ==
  (lastOp = "reply" /\ lastReply.how = "status") =>
    /\ Phase(isAnalyzing, error, response) = "Failed"
    /\ response = Null
    /\ Kind(error) = "string"
    /\ Contains(Val(error), NatToText(lastReply.status))
    /\ Contains(Val(error), lastReply.body)

\* C8: right after clear(), whatever state it was issued in, the pipeline is
\* Idle: the preview URL is revoked and unset, neither result nor error is
\* stored, nothing shows as uploading and no box is drawn.
C8_ClearReturnsToIdle ==
  lastOp = "clear" =>
    /\ Phase(isAnalyzing, error, response) = "Idle"
    /\ ~isAnalyzing
    /\ previewUrl = Null
    /\ \A n \in 1..created : BlobUrl(n) \in revoked
    /\ response = Null
    /\ error = Null
    /\ annotations = << >>

\* C9: the box at 0-based index i shows a chip exactly when its label or its
\* confidence (confidence, else score) is present; the chip reads the label,
\* or "Detection {i+1}" without one, then a space, the confidence as a
\* rounded percentage and "%" when the confidence is present.
C9_ChipWhenLabelOrConfidence ==
  OverlayMounted(previewUrl, detections) =>
    /\ Len(annotations) = Len(Val(detections))
    /\ \A i \in DOMAIN annotations :
         LET d == Val(detections)[i]
             lab == IF Prop(d, "label") # Undef THEN Prop(d, "label")
                    ELSE IF Prop(d, "class") # Undef THEN Prop(d, "class")
                    ELSE Prop(d, "class_name")
             conf == IF Prop(d, "confidence") # Undef THEN Prop(d, "confidence")
                     ELSE Prop(d, "score")
             name == IF lab # Undef THEN Val(lab) ELSE TxtDetection \o NatToText(i)
             pct == IF conf # Undef
                      THEN <<" ">> \o NatToText((Val(conf) + 5) \div 10) \o <<"%">>
                      ELSE << >>
         IN /\ annotations[i].chip.shown <=> (lab # Undef \/ conf # Undef)
            /\ annotations[i].chip.shown => annotations[i].chip.text = name \o pct

\* C10: the box at 0-based index i is drawn in palette[i mod 5] of a palette
\* of 5 pairwise distinct colors, after every render, so that indices i and
\* i + 5 share a color.
C10_ColorByIndex ==
  /\ Len(COLORS) = 5
  /\ \A j, k \in DOMAIN COLORS : j # k => COLORS[j] # COLORS[k]
  /\ \A i \in DOMAIN annotations :
       /\ annotations[i].color = COLORS[((i - 1) % 5) + 1]
       /\ (i + 5 \in DOMAIN annotations) => annotations[i + 5].color = annotations[i].color

\* C10 witness: a list of at least 7 boxes re-rendered after a change of
\* geometry, its first and sixth box in the same color.
C10_Witness ==
  /\ OverlayShows
  /\ lastOp = "geometry"
  /\ Len(annotations) >= 7
  /\ annotations[1].color = annotations[6].color
  /\ annotations[1].color # annotations[2].color

\* C11: a result and an error message are never stored together, and while
\* the pipeline is Uploading neither is stored.
C11_OnePhaseAtATime ==
  /\ ~(Truthy(response) /\ Truthy(error))
  /\ isAnalyzing => (response = Null /\ error = Null)

\* C12: at most one Analysis Service request is in flight.
C12_SingleFlight == Cardinality(requests) <= 1

\* C13: once a request has completed the uploading flag is cleared, and the
\* pipeline is Succeeded with the result stored after a success status with a
\* parsable body, Failed with a message stored after a non-success status, a
\* network failure or an unparsable body.
C13_SubmitResolves ==
  lastOp = "reply" =>
    /\ ~isAnalyzing
    /\ lastReply.how = "success" =>
         /\ Truthy(response)
         /\ Phase(isAnalyzing, error, response) = "Succeeded"
    /\ lastReply.how \in {"status", "network", "parse"} =>
         /\ Kind(error) = "string" /\ Val(error) # << >>
         /\ Phase(isAnalyzing, error, response) = "Failed"

\* What the try/catch/finally does guarantee on completion: the flag is
\* cleared, a success leaves its result stored, a failure leaves a message
\* stored, and with no request left the pipeline is not Uploading.
Completed ==
  /\ lastOp = "reply" =>
       /\ ~isAnalyzing
       /\ lastReply.how = "success" => Truthy(response)
       /\ lastReply.how \in {"status", "network", "parse"} =>
            (Kind(error) = "string" /\ Val(error) # << >>)
  /\ requests = {} => ~isAnalyzing

\* Given that the Analysis Service answers, every request in flight completes
\* and the uploading flag is eventually cleared.
EventuallyAnswered ==
  /\ []Completed
  /\ \A id \in 1..MaxAnswered :
       (\E r \in requests : r.id = id) ~> ~(\E r \in requests : r.id = id)
  /\ isAnalyzing ~> ~isAnalyzing

\* The object URLs created so far and not revoked
Unreleased == {n \in 1..created : BlobUrl(n) \notin revoked}

\* C14: every preview reference created so far is the current preview or has
\* been released, so at most one is unreleased at any time, and none is
\* unreleased right after clear.
C14_PreviewsReleased ==
  /\ \A n \in 1..created : BlobUrl(n) = previewUrl \/ BlobUrl(n) \in revoked
  /\ Cardinality(Unreleased) <= 1
  /\ lastOp = "clear" => Unreleased = {}

\* C14 witness: a second image has been submitted after a clear; its preview is
\* current and the first preview has been released.
C14_Witness ==
  /\ created = 2
  /\ lastOp = "submit"
  /\ previewUrl = BlobUrl(2)
  /\ BlobUrl(1) \in revoked
  /\ Unreleased = {2}

====
